---- MODULE Spec2Model ----
(***************************************************************************)
(* ClearanceOS: the Anti-Corruption Layer (src/acl.py) as a state machine. *)
(* The ACL keeps a status cache (subject_id -> LegacyStatus) and a FIFO    *)
(* queue of pending sync items; publish_decision, force_sync and           *)
(* simulate_batch_processing are the operations.                           *)
(*   Spec       the operations run one at a time                           *)
(*   FairSpec   the same, with the batch job run again and again           *)
(*   ConcSpec   the operations called from two threads and interleaved     *)
(*              statement by statement (the code takes no lock)            *)
(*   EngineSpec the Adjudication Engine (src/logic.py) and its audit log   *)
(*   EquivSpec  the engine of src/demo.py beside the engine of logic.py    *)
(*   RetrievalSpec  the engine on incidents the search tells apart and the *)
(*              rules do not                                               *)
(*   IntakeSpec the engine on every incident models.Incident accepts       *)
(*   PipelineSpec  the request of src/app.py: adjudicate, then publish     *)
(***************************************************************************)
EXTENDS Integers, Sequences, FiniteSets, TLC

(***************************************************************************)
(* Bounds of the model.                                                    *)
(***************************************************************************)
MaxQueue == 2        \* publish is not taken once the queue holds this many items
MaxClock == 1        \* datetime.now() ranges over 0..MaxClock
MaxInterval == 1     \* sync_interval_hours is drawn from 0..MaxInterval

Subjects == {"SUBJ-1", "SUBJ-2"}

\* models.AdjudicationDecision.recommendation, plus one value outside the
\* status_map table (publish_decision is duck-typed and has a default for it)
Recommendations == {"GRANT", "DENY", "REVOKE", "MANUAL_REVIEW", "ESCALATE"}

\* last_sync = None / last_batch_sync = None
NoTime == -1

VARIABLES
    sync_interval,      \* self.sync_interval
    pending_queue,      \* self.pending_queue
    status_cache,       \* self.status_cache: a dict, DOMAIN = the cached subjects
    last_batch_sync,    \* self.last_batch_sync
    now,                \* the wall clock read by datetime.now()
    last,               \* history: the operation that ran last and its outcome
    converged,          \* history: per subject, local_status at its last convergence
    pc,                 \* ConcSpec: per thread, the statement it is about to run
    frame,              \* ConcSpec: per thread, the arguments and local variables
    oid,                \* ConcSpec: per subject, the identity of the cached object
    calls,              \* ConcSpec: the number of operations called so far
    decision_log,       \* EngineSpec: self.decision_log
    incident,           \* EngineSpec: the argument of the last adjudicate_case call
    decision,           \* EngineSpec: the decision it returned
    adjudications,      \* EngineSpec: the number of completed adjudicate_case calls
    repeated,           \* history: what the last call's incident shares with the one before
    demo_decision       \* EquivSpec: the decision of the engine of demo.py

acl == <<sync_interval, pending_queue, status_cache, last_batch_sync>>
conc_vars == <<pc, frame, oid, calls>>
engine_vars == <<decision_log, incident, decision, adjudications, repeated,
                 demo_decision>>
vars == <<sync_interval, pending_queue, status_cache, last_batch_sync, now,
          last, converged, pc, frame, oid, calls,
          decision_log, incident, decision, adjudications, repeated,
          demo_decision>>

(***************************************************************************)
(* models.LegacyStatus                                                     *)
(***************************************************************************)
LegacyStatus(local, mainframe, sync, lag) ==
    [local_status |-> local, mainframe_status |-> mainframe,
     last_sync |-> sync, sync_lag_hours |-> lag]

\* placeholder for "no status returned" in the history records
NoStatus == LegacyStatus("NONE", "NONE", NoTime, 0)

EmptyCache == [s \in {} |-> NoStatus]

(***************************************************************************)
(* publish_decision                                                        *)
(***************************************************************************)
\* a plausible slip: the MANUAL_REVIEW row is missing from the table
status_map_NoManualReview(recommendation) ==
    CASE recommendation = "GRANT" -> "ACTIVE"
      [] recommendation = "DENY" -> "PENDING"
      [] recommendation = "REVOKE" -> "REVOKED"
      [] OTHER -> "PENDING"

\* status_map.get(decision.recommendation, "PENDING")
status_map(recommendation) ==
    CASE recommendation = "GRANT" -> "ACTIVE"
      [] recommendation = "DENY" -> "PENDING"
      [] recommendation = "REVOKE" -> "REVOKED"
      [] recommendation = "MANUAL_REVIEW" -> "SUSPENDED"
      [] OTHER -> "PENDING"

\* the dual-status object publish_decision constructs
PublishedStatus(recommendation) ==
    LegacyStatus(status_map(recommendation), "ACTIVE", NoTime, sync_interval)

\* the fields of the SOAP envelope that depend on the arguments
generate_soap_envelope(subject_id, recommendation) ==
    [SubjectID |-> subject_id, NewStatus |-> recommendation]

\* the queued dict; queued_at and the envelope's timestamps are written and
\* never read, and are left out
QueueItem(subject_id, recommendation) ==
    [subject_id |-> subject_id,
     decision |-> [recommendation |-> recommendation],
     xml_payload |-> generate_soap_envelope(subject_id, recommendation)]

\* a plausible slip: one pending item per subject, the new one replacing the old
EnqueueDedup(queue, item) ==
    Append(SelectSeq(queue, LAMBDA q : q.subject_id # item.subject_id), item)

\* self.pending_queue.append(item)
Enqueue(queue, item) == Append(queue, item)

\* self.status_cache[subject_id] = status
CachePut(cache, subject_id, status) ==
    [s \in DOMAIN cache \cup {subject_id} |->
        IF s = subject_id THEN status ELSE cache[s]]

\* number of queue items of one subject
QueueCount(queue, subject_id) ==
    Cardinality({i \in 1..Len(queue) : queue[i].subject_id = subject_id})

\* the subjects that have an item in the queue
QueueSubjects(queue) == {queue[i].subject_id : i \in 1..Len(queue)}

\* the cache entry of a subject before an operation touches it
PriorEntry(subject_id) ==
    IF subject_id \in DOMAIN status_cache THEN status_cache[subject_id] ELSE NoStatus

\* History record of an operation: its arguments, the error raised ("none"
\* when it returned), the returned status / count, the subjects it converged,
\* what it found (the subject's entry, its number of queue items, the
\* last-batch-sync timestamp) and which operation ran before it.
OpRecord(op, subject_id, recommendation, err, ret, processed, synced) ==
    [op |-> op, subject_id |-> subject_id, recommendation |-> recommendation,
     err |-> err, ret |-> ret, processed |-> processed, synced |-> synced,
     prior |-> IF subject_id \in Subjects THEN PriorEntry(subject_id) ELSE NoStatus,
     prior_qcount |-> IF subject_id \in Subjects
                      THEN QueueCount(pending_queue, subject_id) ELSE 0,
     prior_batch_sync |-> last_batch_sync,
     after |-> [op |-> last.op, subject_id |-> last.subject_id,
                recommendation |-> last.recommendation]]

NoOp ==
    [op |-> "none", subject_id |-> "-", recommendation |-> "-",
     err |-> "none", ret |-> NoStatus, processed |-> 0, synced |-> {},
     prior |-> NoStatus, prior_qcount |-> 0, prior_batch_sync |-> NoTime,
     after |-> [op |-> "none", subject_id |-> "-", recommendation |-> "-"]]

Publish(subject_id, recommendation) ==
    /\ Len(pending_queue) < MaxQueue
    /\ LET status == PublishedStatus(recommendation)
       IN /\ status_cache' = CachePut(status_cache, subject_id, status)
          /\ pending_queue' = Enqueue(pending_queue,
                                      QueueItem(subject_id, recommendation))
          /\ last' = OpRecord("publish", subject_id, recommendation, "none",
                              status, 0, {})
    /\ UNCHANGED <<sync_interval, last_batch_sync, now, converged>>
    /\ UNCHANGED <<conc_vars, engine_vars>>

(***************************************************************************)
(* force_sync                                                              *)
(***************************************************************************)
\* a plausible slip: the lag is left at the interval
SyncedKeepLag(status, t) ==
    [status EXCEPT !.mainframe_status = status.local_status,
                   !.last_sync = t]

\* mainframe_status := local_status; last_sync := now; sync_lag_hours := 0
Synced(status, t) ==
    [status EXCEPT !.mainframe_status = status.local_status,
                   !.last_sync = t,
                   !.sync_lag_hours = 0]

\* a plausible slip: only the oldest item of the subject is removed
RECURSIVE RemoveOldest(_, _)
RemoveOldest(queue, subject_id) ==
    IF queue = <<>> THEN <<>>
    ELSE IF Head(queue).subject_id = subject_id THEN Tail(queue)
    ELSE <<Head(queue)>> \o RemoveOldest(Tail(queue), subject_id)

\* a plausible slip: the queue is emptied, as the batch does
RemoveEverything(queue, subject_id) == <<>>

\* [item for item in self.pending_queue if item["subject_id"] != subject_id]
RemoveSubject(queue, subject_id) ==
    SelectSeq(queue, LAMBDA item : item.subject_id # subject_id)

\* a plausible slip: the sync timestamp is stamped before the cache lookup
ForceSyncNotFoundStamped(subject_id) ==
    /\ subject_id \notin DOMAIN status_cache
    /\ last_batch_sync' = now
    /\ last' = OpRecord("force_sync", subject_id, "-", "ValueError",
                        NoStatus, 0, {})
    /\ UNCHANGED <<sync_interval, pending_queue, status_cache, now, converged>>
    /\ UNCHANGED <<conc_vars, engine_vars>>

\* raise ValueError: no cached status for the subject
ForceSyncNotFound(subject_id) ==
    /\ subject_id \notin DOMAIN status_cache
    /\ last' = OpRecord("force_sync", subject_id, "-", "ValueError",
                        NoStatus, 0, {})
    /\ UNCHANGED <<acl, now, converged>>
    /\ UNCHANGED <<conc_vars, engine_vars>>

ForceSyncFound(subject_id) ==
    /\ subject_id \in DOMAIN status_cache
    /\ LET status == Synced(status_cache[subject_id], now)
       IN /\ status_cache' = [status_cache EXCEPT ![subject_id] = status]
          /\ pending_queue' = RemoveSubject(pending_queue, subject_id)
          /\ last_batch_sync' = now
          /\ converged' = [converged EXCEPT ![subject_id] = status.local_status]
          /\ last' = OpRecord("force_sync", subject_id, "-", "none",
                              status, 0, {subject_id})
    /\ UNCHANGED <<sync_interval, now>>
    /\ UNCHANGED <<conc_vars, engine_vars>>

ForceSync(subject_id) ==
    \/ ForceSyncNotFound(subject_id)
    \/ ForceSyncFound(subject_id)

(***************************************************************************)
(* simulate_batch_processing                                               *)
(***************************************************************************)
\* a plausible slip: the loop returns after the first item
BatchLoopFirstOnly(items, acc) ==
    IF items = <<>> THEN acc
    ELSE LET subject_id == Head(items).subject_id
         IN IF subject_id \in DOMAIN acc.status_cache
            THEN [status_cache |->
                      [acc.status_cache EXCEPT
                          ![subject_id] = Synced(acc.status_cache[subject_id], now)],
                  processed |-> acc.processed + 1]
            ELSE acc

\* a plausible slip: a subject already converged in this pass is not counted
RECURSIVE BatchLoopCountOnce(_, _)
BatchLoopCountOnce(items, acc) ==
    IF items = <<>> THEN acc
    ELSE LET subject_id == Head(items).subject_id
         IN IF /\ subject_id \in DOMAIN acc.status_cache
               /\ acc.status_cache[subject_id].last_sync = NoTime
            THEN BatchLoopCountOnce(Tail(items),
                     [status_cache |->
                          [acc.status_cache EXCEPT
                              ![subject_id] = Synced(acc.status_cache[subject_id], now)],
                      processed |-> acc.processed + 1])
            ELSE BatchLoopCountOnce(Tail(items), acc)

\* the for loop over the snapshot self.pending_queue[:]; acc carries the
\* cache and the processed counter
RECURSIVE BatchLoop(_, _)
BatchLoop(items, acc) ==
    IF items = <<>> THEN acc
    ELSE LET subject_id == Head(items).subject_id
         IN IF subject_id \in DOMAIN acc.status_cache
            THEN BatchLoop(Tail(items),
                     [status_cache |->
                          [acc.status_cache EXCEPT
                              ![subject_id] = Synced(acc.status_cache[subject_id], now)],
                      processed |-> acc.processed + 1])
            ELSE BatchLoop(Tail(items), acc)

\* a plausible slip: the queue is not cleared after the pass
ClearQueueForgotten(queue) == queue

\* self.pending_queue.clear()
ClearQueue(queue) == <<>>

RunBatch ==
    /\ LET res == BatchLoop(pending_queue,
                            [status_cache |-> status_cache, processed |-> 0])
           done == QueueSubjects(pending_queue) \cap DOMAIN status_cache
       IN /\ status_cache' = res.status_cache
          /\ converged' = [s \in Subjects |->
                              IF s \in done THEN status_cache[s].local_status
                              ELSE converged[s]]
          /\ last' = OpRecord("batch", "-", "-", "none", NoStatus,
                              res.processed, done)
    /\ pending_queue' = ClearQueue(pending_queue)
    /\ last_batch_sync' = now
    /\ UNCHANGED <<sync_interval, now>>
    /\ UNCHANGED <<conc_vars, engine_vars>>

(***************************************************************************)
(* time passes between operations                                          *)
(***************************************************************************)
Tick ==
    /\ now < MaxClock
    /\ now' = now + 1
    /\ UNCHANGED <<acl, last, converged>>
    /\ UNCHANGED <<conc_vars, engine_vars>>

(***************************************************************************)
(* The callers of the ACL in ConcSpec, and the values the thread and       *)
(* engine variables have before anything ran                               *)
(***************************************************************************)
Threads == {"T1", "T2"}

\* a thread that is in no operation
NoFrame == [call |-> 0, subject_id |-> "-", recommendation |-> "-",
            ref |-> 0, items |-> <<>>, processed |-> 0]

\* no adjudicate_case call yet
NoIncident == [report_id |-> "-", date |-> "-", subject_name |-> "-",
               narrative_summary |-> "-", charges |-> <<>>,
               alcohol_involved |-> FALSE]

NoDecision == [recommendation |-> "-", risk_score |-> 0, citations |-> <<>>,
               generated_sor |-> <<>>, timestamp |-> NoTime]

(***************************************************************************)
(* AntiCorruptionLayer.__init__                                            *)
(***************************************************************************)
Init ==
    /\ sync_interval \in 0..MaxInterval
    /\ pending_queue = <<>>
    /\ status_cache = EmptyCache
    /\ last_batch_sync = NoTime
    /\ now = 0
    /\ last = NoOp
    /\ converged = [s \in Subjects |-> "ACTIVE"]
    /\ pc = [t \in Threads |-> "idle"]
    /\ frame = [t \in Threads |-> NoFrame]
    /\ oid = [s \in Subjects |-> 0]
    /\ calls = 0
    /\ decision_log = <<>>
    /\ incident = NoIncident
    /\ decision = NoDecision
    /\ adjudications = 0
    /\ repeated = "nothing"
    /\ demo_decision = NoDecision

Next ==
    \/ \E s \in Subjects, r \in Recommendations : Publish(s, r)
    \/ \E s \in Subjects : ForceSync(s)
    \/ RunBatch
    \/ Tick

Spec == Init /\ [][Next]_vars

(***************************************************************************)
(* The same machine with the nightly batch job run again and again; the    *)
(* published decisions are drawn from two rows of the table.               *)
(***************************************************************************)
FairRecommendations == {"GRANT", "REVOKE"}

FairNext ==
    \/ \E s \in Subjects, r \in FairRecommendations : Publish(s, r)
    \/ \E s \in Subjects : ForceSync(s)
    \/ RunBatch
    \/ Tick

FairSpec == Init /\ [][FairNext]_vars /\ WF_vars(RunBatch)

(***************************************************************************)
(* ConcSpec: publish_decision, force_sync and simulate_batch_processing    *)
(* called from two threads.  The code takes no lock, so the threads        *)
(* interleave between statements.  Every statement that reads or writes    *)
(* the shared cache, queue or timestamp is one step.  A status object is   *)
(* identified by the call that created it: a thread that loaded            *)
(* status = self.status_cache[subject_id] keeps writing to that object     *)
(* after a publish has put a new object in the cache.                      *)
(***************************************************************************)
MaxCalls == 3        \* operations called in one run of ConcSpec

ConcRecommendations == {"GRANT", "REVOKE"}

Goto(t, label) == pc' = [pc EXCEPT ![t] = label]

\* the call of an operation: the arguments are bound, nothing is shared yet
Call(t, label, subject_id, recommendation) ==
    /\ pc[t] = "idle"
    /\ calls < MaxCalls
    /\ calls' = calls + 1
    /\ frame' = [frame EXCEPT ![t] = [NoFrame EXCEPT !.call = calls + 1,
                                                     !.subject_id = subject_id,
                                                     !.recommendation = recommendation]]
    /\ Goto(t, label)
    /\ UNCHANGED <<acl, now, last, converged, oid, engine_vars>>

CallPublish(t, subject_id, recommendation) ==
    Call(t, "publish_cache", subject_id, recommendation)

CallForceSync(t, subject_id) == Call(t, "sync_check", subject_id, "-")

CallBatch(t) == Call(t, "batch_snapshot", "-", "-")

\* status.<attr> = value, written to the object the thread holds: the write
\* shows in the cache only while that object is still the cached one
StoreAttr(t, attr, value) ==
    IF oid[frame[t].subject_id] = frame[t].ref
    THEN [status_cache EXCEPT ![frame[t].subject_id][attr] = value]
    ELSE status_cache

\* publish_decision: self.status_cache[subject_id] = status
PublishCache(t) ==
    /\ pc[t] = "publish_cache"
    /\ status_cache' = CachePut(status_cache, frame[t].subject_id,
                                PublishedStatus(frame[t].recommendation))
    /\ oid' = [oid EXCEPT ![frame[t].subject_id] = frame[t].call]
    /\ Goto(t, "publish_queue")
    /\ UNCHANGED <<sync_interval, pending_queue, last_batch_sync, now, last,
                   converged, frame, calls, engine_vars>>

\* publish_decision: self.pending_queue.append({...}); return status
PublishQueue(t) ==
    /\ pc[t] = "publish_queue"
    /\ pending_queue' = Enqueue(pending_queue,
                                QueueItem(frame[t].subject_id, frame[t].recommendation))
    /\ frame' = [frame EXCEPT ![t] = NoFrame]
    /\ Goto(t, "idle")
    /\ UNCHANGED <<sync_interval, status_cache, last_batch_sync, now, last,
                   converged, oid, calls, engine_vars>>

\* force_sync: if subject_id not in self.status_cache: raise ValueError
SyncCheck(t) ==
    /\ pc[t] = "sync_check"
    /\ IF frame[t].subject_id \in DOMAIN status_cache
       THEN /\ Goto(t, "sync_load")
            /\ UNCHANGED frame
       ELSE /\ Goto(t, "idle")
            /\ frame' = [frame EXCEPT ![t] = NoFrame]
    /\ UNCHANGED <<acl, now, last, converged, oid, calls, engine_vars>>

\* force_sync / batch: status = self.status_cache[subject_id]
LoadStatus(t) ==
    /\ pc[t] \in {"sync_load", "batch_load"}
    /\ frame' = [frame EXCEPT ![t].ref = oid[frame[t].subject_id]]
    /\ Goto(t, IF pc[t] = "sync_load" THEN "sync_mainframe" ELSE "batch_mainframe")
    /\ UNCHANGED <<acl, now, last, converged, oid, calls, engine_vars>>

\* force_sync / batch: status.mainframe_status = status.local_status
StoreMainframe(t) ==
    /\ pc[t] \in {"sync_mainframe", "batch_mainframe"}
    /\ status_cache' = StoreAttr(t, "mainframe_status",
                                 status_cache[frame[t].subject_id].local_status)
    /\ Goto(t, IF pc[t] = "sync_mainframe" THEN "sync_last_sync" ELSE "batch_last_sync")
    /\ UNCHANGED <<sync_interval, pending_queue, last_batch_sync, now, last,
                   converged, frame, oid, calls, engine_vars>>

\* force_sync / batch: status.last_sync = datetime.now().isoformat()
StoreLastSync(t) ==
    /\ pc[t] \in {"sync_last_sync", "batch_last_sync"}
    /\ status_cache' = StoreAttr(t, "last_sync", now)
    /\ Goto(t, IF pc[t] = "sync_last_sync" THEN "sync_lag" ELSE "batch_lag")
    /\ UNCHANGED <<sync_interval, pending_queue, last_batch_sync, now, last,
                   converged, frame, oid, calls, engine_vars>>

\* force_sync / batch: status.sync_lag_hours = 0 (and processed += 1 in the batch)
StoreLag(t) ==
    /\ pc[t] \in {"sync_lag", "batch_lag"}
    /\ status_cache' = StoreAttr(t, "sync_lag_hours", 0)
    /\ IF pc[t] = "sync_lag"
       THEN /\ Goto(t, "sync_filter")
            /\ UNCHANGED frame
       ELSE /\ Goto(t, "batch_next")
            /\ frame' = [frame EXCEPT ![t].processed = @ + 1]
    /\ UNCHANGED <<sync_interval, pending_queue, last_batch_sync, now, last,
                   converged, oid, calls, engine_vars>>

\* force_sync: the list comprehension over self.pending_queue is evaluated
SyncFilter(t) ==
    /\ pc[t] = "sync_filter"
    /\ frame' = [frame EXCEPT ![t].items =
                     RemoveSubject(pending_queue, frame[t].subject_id)]
    /\ Goto(t, "sync_assign")
    /\ UNCHANGED <<acl, now, last, converged, oid, calls, engine_vars>>

\* force_sync: self.pending_queue = <the new list>
SyncAssign(t) ==
    /\ pc[t] = "sync_assign"
    /\ pending_queue' = frame[t].items
    /\ Goto(t, "sync_stamp")
    /\ UNCHANGED <<sync_interval, status_cache, last_batch_sync, now, last,
                   converged, frame, oid, calls, engine_vars>>

\* force_sync / batch: self.last_batch_sync = datetime.now(); return
StampBatchSync(t) ==
    /\ pc[t] \in {"sync_stamp", "batch_stamp"}
    /\ last_batch_sync' = now
    /\ frame' = [frame EXCEPT ![t] = NoFrame]
    /\ Goto(t, "idle")
    /\ UNCHANGED <<sync_interval, pending_queue, status_cache, now, last,
                   converged, oid, calls, engine_vars>>

\* batch: the snapshot self.pending_queue[:]
BatchSnapshot(t) ==
    /\ pc[t] = "batch_snapshot"
    /\ frame' = [frame EXCEPT ![t].items = pending_queue]
    /\ Goto(t, "batch_next")
    /\ UNCHANGED <<acl, now, last, converged, oid, calls, engine_vars>>

\* batch: the next item of the snapshot, and the test
\* subject_id in self.status_cache; after the last item the loop is left
BatchNextItem(t) ==
    /\ pc[t] = "batch_next"
    /\ IF frame[t].items = <<>>
       THEN /\ Goto(t, "batch_clear")
            /\ UNCHANGED frame
       ELSE /\ frame' = [frame EXCEPT
                            ![t].subject_id = Head(frame[t].items).subject_id,
                            ![t].items = Tail(frame[t].items)]
            /\ Goto(t, IF Head(frame[t].items).subject_id \in DOMAIN status_cache
                       THEN "batch_load" ELSE "batch_next")
    /\ UNCHANGED <<acl, now, last, converged, oid, calls, engine_vars>>

\* batch: self.pending_queue.clear()
BatchClear(t) ==
    /\ pc[t] = "batch_clear"
    /\ pending_queue' = ClearQueue(pending_queue)
    /\ Goto(t, "batch_stamp")
    /\ UNCHANGED <<sync_interval, status_cache, last_batch_sync, now, last,
                   converged, frame, oid, calls, engine_vars>>

ConcNext ==
    \E t \in Threads :
        \/ \E s \in Subjects, r \in ConcRecommendations : CallPublish(t, s, r)
        \/ \E s \in Subjects : CallForceSync(t, s)
        \/ CallBatch(t)
        \/ PublishCache(t)
        \/ PublishQueue(t)
        \/ SyncCheck(t)
        \/ LoadStatus(t)
        \/ StoreMainframe(t)
        \/ StoreLastSync(t)
        \/ StoreLag(t)
        \/ SyncFilter(t)
        \/ SyncAssign(t)
        \/ StampBatchSync(t)
        \/ BatchSnapshot(t)
        \/ BatchNextItem(t)
        \/ BatchClear(t)

ConcSpec == Init /\ [][ConcNext]_vars

(***************************************************************************)
(* EngineSpec: AdjudicationEngine.adjudicate_case (src/logic.py) called    *)
(* again and again on one engine.  Risk scores are counted in tenths       *)
(* (2.0 is 20) so that they stay integers.                                 *)
(***************************************************************************)
MaxCharges == 2          \* charges of one incident
MaxAdjudications == 2    \* adjudicate_case calls on the engine

AlcoholScore == 20       \* risk_score += 2.0
FelonyScore == 30        \* 3.0 if has_felony
MultiChargeScore == 20   \* else 2.0
RevokeThreshold == 40    \* risk_score >= 4.0
ReviewThreshold == 20    \* risk_score >= 2.0
ScoreCap == 100          \* min(risk_score, 10.0)
ExcerptLength == 150     \* concern[:150]

\* models.Charge (statute is optional and never read)
Charge(description, severity) == [description |-> description, severity |-> severity]

ChargePool ==
    {Charge("DUI", "Misdemeanor"), Charge("Assault", "Felony"),
     Charge("Speeding", "Infraction"), Charge("Loitering", "Unknown")}

ChargeLists == UNION {[1..n -> ChargePool] : n \in 0..MaxCharges}

\* the reports the incidents are extracted from: identifier and narrative
Reports ==
    {[report_id |-> "RPT-1",
      narrative_summary |-> "Subject was stopped after drinking alcohol"],
     [report_id |-> "RPT-2", narrative_summary |-> "Routine traffic stop"]}

\* models.Incident (location is optional and never read)
Incidents ==
    {[report_id |-> r.report_id, date |-> "2024-01-15", subject_name |-> "J. Doe",
      narrative_summary |-> r.narrative_summary, charges |-> c,
      alcohol_involved |-> a] : r \in Reports, c \in ChargeLists, a \in BOOLEAN}

\* rag.SEAD4_GUIDELINES[code]["citation"] of the two guidelines the engine cites
CatalogCitation(code) ==
    IF code = "G" THEN "SEAD 4, Adjudicative Guidelines, Paragraph 21"
    ELSE "SEAD 4, Adjudicative Guidelines, Paragraph 30"

\* Citation(guideline="Guideline X", text=concern[:150] + "...", source_paragraph=citation)
Citation(code) ==
    [guideline |-> IF code = "G" THEN "Guideline G" ELSE "Guideline J",
     text |-> [concern_of |-> code, chars |-> ExcerptLength],
     source_paragraph |-> CatalogCitation(code)]

\* a reasoning sentence: its template and what is filled in
Sentence(template, date, count, first) ==
    [template |-> template, date |-> date, count |-> count, first |-> first]

\* an index out of range raises IndexError and ends the call; the value
\* stands for the exception in the place where the element was wanted
IndexError == "IndexError"

\* incident.charges[0].description
FirstDescription(i) ==
    IF Len(i.charges) = 0 THEN IndexError ELSE i.charges[1].description

\* reasoning[-1]
LastOf(reasoning) ==
    IF Len(reasoning) = 0 THEN Sentence(IndexError, "-", 0, "-")
    ELSE reasoning[Len(reasoning)]

\* the call that was to build d raised instead
Raised(d) ==
    \/ d.generated_sor.recommendation.template = IndexError
    \/ \E k \in 1..Len(d.generated_sor.findings) :
           d.generated_sor.findings[k][2].first = IndexError

\* the keywords of search_guidelines a text contains, lower-cased
KeywordsIn(text) ==
    IF text = "Subject was stopped after drinking alcohol" THEN {"alcohol", "drink"}
    ELSE IF text = "DUI" THEN {"dui"}
    ELSE IF text = "Assault" THEN {"assault"}
    ELSE IF text = "Marijuana possession" THEN {"marijuana"}
    ELSE IF text = "Falsifying records" THEN {"falsif"}
    ELSE {}

\* rag.search_guidelines on the query built by _retrieve_guidelines: the
\* narrative and the charge descriptions joined; the codes in catalog order
retrieve_guidelines(i) ==
    LET words == KeywordsIn(i.narrative_summary)
                 \cup UNION {KeywordsIn(i.charges[k].description) : k \in 1..Len(i.charges)}
        hit(code, keys) == IF words \cap keys # {} THEN <<code>> ELSE <<>>
    IN hit("G", {"alcohol", "dui", "drink"})
       \o hit("H", {"drug", "substance", "marijuana"})
       \o hit("D", {"sexual", "harassment"})
       \o hit("J", {"assault", "violence", "criminal"})
       \o hit("E", {"dishonest", "falsif"})

\* citations = [], risk_score = 0.0, reasoning_parts = []
StartOfCase == [citations |-> <<>>, risk_score |-> 0, reasoning_parts |-> <<>>]

\* slip: the alcohol rule applied to every incident
RuleSetA_Unconditional(i, st) ==
    [citations |-> Append(st.citations, Citation("G")),
     risk_score |-> st.risk_score + AlcoholScore,
     reasoning_parts |-> Append(st.reasoning_parts,
                                Sentence("alcohol", i.date, 0, "-"))]

\* slip: the alcohol rule keyed on the guidelines the search returned
RuleSetA_FromRetrieval(i, st) ==
    IF \E k \in 1..Len(retrieve_guidelines(i)) : retrieve_guidelines(i)[k] = "G"
    THEN [citations |-> Append(st.citations, Citation("G")),
          risk_score |-> st.risk_score + AlcoholScore,
          reasoning_parts |-> Append(st.reasoning_parts,
                                     Sentence("alcohol", i.date, 0, "-"))]
    ELSE st

\* Rule Set A: alcohol-related offenses
RuleSetA(i, st) ==
    IF i.alcohol_involved
    THEN [citations |-> Append(st.citations, Citation("G")),
          risk_score |-> st.risk_score + AlcoholScore,
          reasoning_parts |-> Append(st.reasoning_parts,
                                     Sentence("alcohol", i.date, 0, "-"))]
    ELSE st

\* slip: only the first charge is looked at
has_felony_FirstChargeOnly(i) ==
    Len(i.charges) > 0 /\ i.charges[1].severity = "Felony"

\* any(c.severity == "Felony" for c in incident.charges)
has_felony(i) == \E k \in 1..Len(i.charges) : i.charges[k].severity = "Felony"

\* slip: "not exactly one charge" written for "more than one charge"
RuleSetB_NotOneCharge(i, st) ==
    IF has_felony(i) \/ Len(i.charges) # 1
    THEN [citations |-> Append(st.citations, Citation("J")),
          risk_score |-> st.risk_score
                            + (IF has_felony(i) THEN FelonyScore ELSE MultiChargeScore),
          reasoning_parts |-> Append(st.reasoning_parts,
                                     Sentence("charges", "-", Len(i.charges),
                                              FirstDescription(i)))]
    ELSE st

\* slip: the score of the criminal-conduct rule read from SEVERITY_WEIGHTS
\* (Felony 3.0, Misdemeanor 2.0, Infraction 1.0, Unknown 1.5) for the first charge
RuleSetB_SeverityWeights(i, st) ==
    IF has_felony(i) \/ Len(i.charges) > 1
    THEN [citations |-> Append(st.citations, Citation("J")),
          risk_score |-> st.risk_score
                            + (CASE i.charges[1].severity = "Felony" -> 30
                                 [] i.charges[1].severity = "Misdemeanor" -> 20
                                 [] i.charges[1].severity = "Infraction" -> 10
                                 [] OTHER -> 15),
          reasoning_parts |-> Append(st.reasoning_parts,
                                     Sentence("charges", "-", Len(i.charges),
                                              FirstDescription(i)))]
    ELSE st

\* slip: the criminal-conduct rule adds the same score with or without a felony
RuleSetB_FlatScore(i, st) ==
    IF has_felony(i) \/ Len(i.charges) > 1
    THEN [citations |-> Append(st.citations, Citation("J")),
          risk_score |-> st.risk_score + MultiChargeScore,
          reasoning_parts |-> Append(st.reasoning_parts,
                                     Sentence("charges", "-", Len(i.charges),
                                              FirstDescription(i)))]
    ELSE st

\* slip: any charge at all triggers the criminal-conduct rule
RuleSetB_AnyCharge(i, st) ==
    IF has_felony(i) \/ Len(i.charges) >= 1
    THEN [citations |-> Append(st.citations, Citation("J")),
          risk_score |-> st.risk_score
                            + (IF has_felony(i) THEN FelonyScore ELSE MultiChargeScore),
          reasoning_parts |-> Append(st.reasoning_parts,
                                     Sentence("charges", "-", Len(i.charges),
                                              FirstDescription(i)))]
    ELSE st

\* Rule Set B: criminal charges severity
RuleSetB(i, st) ==
    IF has_felony(i) \/ Len(i.charges) > 1
    THEN [citations |-> Append(st.citations, Citation("J")),
          risk_score |-> st.risk_score
                            + (IF has_felony(i) THEN FelonyScore ELSE MultiChargeScore),
          reasoning_parts |-> Append(st.reasoning_parts,
                                     Sentence("charges", "-", Len(i.charges),
                                              FirstDescription(i)))]
    ELSE st

\* slip: the thresholds compared strictly
Judge_StrictThresholds(risk_score) ==
    IF risk_score > RevokeThreshold THEN "REVOKE"
    ELSE IF risk_score > ReviewThreshold THEN "MANUAL_REVIEW"
    ELSE IF risk_score > 0 THEN "DENY"
    ELSE "GRANT"

\* Rule Set C: the recommendation of a risk score
Judge(risk_score) ==
    IF risk_score >= RevokeThreshold THEN "REVOKE"
    ELSE IF risk_score >= ReviewThreshold THEN "MANUAL_REVIEW"
    ELSE IF risk_score > 0 THEN "DENY"
    ELSE "GRANT"

\* Rule Set C: the sentence appended with the recommendation
RuleSetC(st) ==
    [st EXCEPT !.reasoning_parts =
         Append(@, Sentence(Judge(st.risk_score), "-", 0, "-"))]

\* _generate_sor: header, numbered findings, legal basis, footer
generate_sor(i, reasoning, citations) ==
    [subject |-> i.subject_name, reference |-> i.report_id, date |-> i.date,
     findings |-> [k \in 1..Len(reasoning) |-> <<k, reasoning[k]>>],
     legal_basis |-> [k \in 1..Len(citations) |->
                         <<citations[k].guideline, citations[k].source_paragraph>>],
     recommendation |-> LastOf(reasoning)]

\* slip: max written for min
Min_TakesLarger(a, b) == IF a >= b THEN a ELSE b

Min(a, b) == IF a <= b THEN a ELSE b

\* slip: the citations kept on the engine and carried from call to call
Adjudicate_SharedCitations(i, t) ==
    LET st == RuleSetC(RuleSetB(i, RuleSetA(i,
                  [StartOfCase EXCEPT !.citations = decision.citations])))
    IN [recommendation |-> Judge(st.risk_score),
        risk_score |-> Min(st.risk_score, ScoreCap),
        citations |-> st.citations,
        generated_sor |-> generate_sor(i, st.reasoning_parts, st.citations),
        timestamp |-> t]

\* slip: the criminal-conduct rule applied before the alcohol rule
Adjudicate_CriminalFirst(i, t) ==
    LET st == RuleSetC(RuleSetA(i, RuleSetB(i, StartOfCase)))
    IN [recommendation |-> Judge(st.risk_score),
        risk_score |-> Min(st.risk_score, ScoreCap),
        citations |-> st.citations,
        generated_sor |-> generate_sor(i, st.reasoning_parts, st.citations),
        timestamp |-> t]

\* history: what the incident of a call shares with the incident before it:
\* everything, the facts the rules read (alcohol_involved and the sequence
\* of severities), or neither
Shared(before, i) ==
    IF before = i THEN "incident"
    ELSE IF /\ before # NoIncident
            /\ before.alcohol_involved = i.alcohol_involved
            /\ Len(before.charges) = Len(i.charges)
            /\ \A k \in 1..Len(i.charges) :
                   before.charges[k].severity = i.charges[k].severity
         THEN "facts"
         ELSE "nothing"

\* the AdjudicationDecision adjudicate_case builds at time t
Adjudicate(i, t) ==
    LET st == RuleSetC(RuleSetB(i, RuleSetA(i, StartOfCase)))
    IN [recommendation |-> Judge(st.risk_score),
        risk_score |-> Min(st.risk_score, ScoreCap),
        citations |-> st.citations,
        generated_sor |-> generate_sor(i, st.reasoning_parts, st.citations),
        timestamp |-> t]

\* self.decision_log.append({...})
LogEntry(i, d) ==
    [incident_id |-> i.report_id, decision |-> d.recommendation,
     timestamp |-> d.timestamp]

\* slip: the entry inserted at the front of the log
AppendLog_Prepend(log, entry) == <<entry>> \o log

AppendLog(log, entry) == Append(log, entry)

AdjudicateCase(i) ==
    /\ adjudications < MaxAdjudications
    /\ LET relevant_guidelines == retrieve_guidelines(i)
       IN decision' = Adjudicate(i, now)
    /\ decision_log' = IF Raised(decision') THEN decision_log
                       ELSE AppendLog(decision_log, LogEntry(i, decision'))
    /\ incident' = i
    /\ adjudications' = adjudications + 1
    /\ repeated' = Shared(incident, i)
    /\ UNCHANGED <<acl, now, last, converged, conc_vars, demo_decision>>

EngineNext ==
    \/ \E i \in Incidents : AdjudicateCase(i)
    \/ Tick

\* the engine has no ACL: the interval of the idle ACL is fixed
EngineInit == Init /\ sync_interval = 0

EngineSpec == EngineInit /\ [][EngineNext]_vars

(***************************************************************************)
(* EquivSpec: the engine of demo.py, which has its own copy of the rules   *)
(* and two bands below the revocation threshold instead of three, run      *)
(* side by side with the engine of logic.py on the same incident.          *)
(***************************************************************************)
DemoAlcoholScore == 20       \* risk_score += 2.0
DemoFelonyScore == 30        \* 3.0 if has_felony
DemoMultiChargeScore == 20   \* else 2.0
DemoRevokeThreshold == 40    \* risk_score >= 4.0
DemoReviewThreshold == 20    \* risk_score >= 2.0
DemoScoreCap == 100          \* min(risk_score, 10.0)
DemoExcerptLength == 150     \* ["concern"][:150]

\* Citation(guideline=..., text=SEAD4_GUIDELINES[code]["concern"][:150] + "...",
\*          source_paragraph=SEAD4_GUIDELINES[code]["citation"]) from demo.py's catalog
DemoCitation(code) ==
    [guideline |-> IF code = "G" THEN "Guideline G" ELSE "Guideline J",
     text |-> [concern_of |-> code, chars |-> DemoExcerptLength],
     source_paragraph |-> IF code = "G"
                          THEN "SEAD 4, Adjudicative Guidelines, Paragraph 21"
                          ELSE "SEAD 4, Adjudicative Guidelines, Paragraph 30"]

\* Rule Set A: Alcohol Detection
DemoRuleSetA(i, st) ==
    IF i.alcohol_involved
    THEN [citations |-> Append(st.citations, DemoCitation("G")),
          risk_score |-> st.risk_score + DemoAlcoholScore,
          reasoning_parts |-> Append(st.reasoning_parts,
                                     Sentence("alcohol", i.date, 0, "-"))]
    ELSE st

\* Rule Set B: Criminal Charges
DemoRuleSetB(i, st) ==
    LET felony == \E k \in 1..Len(i.charges) : i.charges[k].severity = "Felony"
    IN IF felony \/ Len(i.charges) > 1
       THEN [citations |-> Append(st.citations, DemoCitation("J")),
             risk_score |-> st.risk_score
                               + (IF felony THEN DemoFelonyScore
                                  ELSE DemoMultiChargeScore),
             reasoning_parts |-> Append(st.reasoning_parts,
                                        Sentence("charges", "-", Len(i.charges),
                                                 FirstDescription(i)))]
       ELSE st

\* slip: the review threshold compared strictly
DemoJudge_StrictReview(risk_score) ==
    IF risk_score >= DemoRevokeThreshold THEN "REVOKE"
    ELSE IF risk_score > DemoReviewThreshold THEN "MANUAL_REVIEW"
    ELSE "GRANT"

\* Decision Logic: no DENY band
DemoJudge(risk_score) ==
    IF risk_score >= DemoRevokeThreshold THEN "REVOKE"
    ELSE IF risk_score >= DemoReviewThreshold THEN "MANUAL_REVIEW"
    ELSE "GRANT"

\* the sentence of the band; demo.py words the revocation sentence differently
DemoRuleSetC(st) ==
    LET band == DemoJudge(st.risk_score)
    IN [st EXCEPT !.reasoning_parts =
            Append(@, Sentence(IF band = "REVOKE" THEN "REVOKE (demo)" ELSE band,
                               "-", 0, "-"))]

\* demo.py _generate_sor: the footer is the last finding alone
demo_generate_sor(i, reasoning, citations) ==
    [subject |-> i.subject_name, reference |-> i.report_id, date |-> i.date,
     findings |-> [k \in 1..Len(reasoning) |-> <<k, reasoning[k]>>],
     legal_basis |-> [k \in 1..Len(citations) |->
                         <<citations[k].guideline, citations[k].source_paragraph>>],
     recommendation |-> <<"bare", LastOf(reasoning)>>]

\* demo.py AdjudicationEngine.adjudicate_case at time t
DemoAdjudicate(i, t) ==
    LET st == DemoRuleSetC(DemoRuleSetB(i, DemoRuleSetA(i, StartOfCase)))
    IN [recommendation |-> DemoJudge(st.risk_score),
        risk_score |-> Min(st.risk_score, DemoScoreCap),
        citations |-> st.citations,
        generated_sor |-> demo_generate_sor(i, st.reasoning_parts, st.citations),
        timestamp |-> t]

\* the incident given to logic.adjudicate_case(incident), which builds an
\* engine for the call and drops it with its log, and to the engine of demo.py
CompareEngines(i) ==
    /\ decision' = Adjudicate(i, now)
    /\ demo_decision' = DemoAdjudicate(i, now)
    /\ incident' = i
    /\ repeated' = Shared(incident, i)
    /\ UNCHANGED <<acl, now, last, converged, conc_vars, decision_log, adjudications>>

EquivNext ==
    \/ \E i \in Incidents : CompareEngines(i)
    \/ Tick

EquivSpec == EngineInit /\ [][EquivNext]_vars

(***************************************************************************)
(* RetrievalSpec: incidents whose charges share a severity and differ in   *)
(* their description, so that the search returns different guidelines for  *)
(* incidents the rules cannot tell apart.                                  *)
(***************************************************************************)
RetrievalPool ==
    {Charge("DUI", "Misdemeanor"), Charge("Marijuana possession", "Misdemeanor"),
     Charge("Assault", "Felony"), Charge("Falsifying records", "Felony")}

RetrievalIncidents ==
    {[report_id |-> r.report_id, date |-> "2024-01-15", subject_name |-> "J. Doe",
      narrative_summary |-> r.narrative_summary, charges |-> c,
      alcohol_involved |-> a] :
        r \in Reports,
        c \in UNION {[1..n -> RetrievalPool] : n \in 0..MaxCharges},
        a \in BOOLEAN}

RetrievalNext == \E i \in RetrievalIncidents : AdjudicateCase(i)

RetrievalSpec == EngineInit /\ [][RetrievalNext]_vars

(***************************************************************************)
(* IntakeSpec: the engine given whatever models.Incident accepts.  The     *)
(* fields report_id, date and subject_name are declared str and nothing    *)
(* else, so the empty string passes; adjudicate_case checks nothing.       *)
(***************************************************************************)
EmptyFieldHeaders ==
    {[report_id |-> "", date |-> "2024-01-15", subject_name |-> "J. Doe"],
     [report_id |-> "RPT-1", date |-> "", subject_name |-> "J. Doe"],
     [report_id |-> "RPT-1", date |-> "2024-01-15", subject_name |-> ""]}

EmptyFieldIncidents ==
    {[report_id |-> h.report_id, date |-> h.date, subject_name |-> h.subject_name,
      narrative_summary |-> "Routine traffic stop", charges |-> c,
      alcohol_involved |-> a] : h \in EmptyFieldHeaders, c \in ChargeLists, a \in BOOLEAN}

IntakeNext ==
    \/ \E i \in Incidents \cup EmptyFieldIncidents : AdjudicateCase(i)
    \/ Tick

IntakeSpec == EngineInit /\ [][IntakeNext]_vars

(***************************************************************************)
(* PipelineSpec: the request of app.py.  Phase 2 gives the extracted       *)
(* incident to the engine of the session; phase 3 publishes the decision   *)
(* it returned for the subject of the request, before the next request.    *)
(***************************************************************************)
Phase2Adjudication(i) ==
    /\ Len(pending_queue) = adjudications
    /\ AdjudicateCase(i)

Phase3Publish(s) ==
    /\ Len(pending_queue) < adjudications
    /\ Publish(s, decision.recommendation)

PipelineNext ==
    \/ \E i \in Incidents : Phase2Adjudication(i)
    \/ \E s \in Subjects : Phase3Publish(s)

\* st.session_state.acl = AntiCorruptionLayer(sync_interval_hours=96): one
\* positive interval
PipelineInit == Init /\ sync_interval = MaxInterval

PipelineSpec == PipelineInit /\ [][PipelineNext]_vars

TypeOK ==
    /\ sync_interval \in 0..MaxInterval
    /\ DOMAIN status_cache \subseteq Subjects
    /\ Len(pending_queue) <= MaxQueue
    /\ now \in 0..MaxClock

(***************************************************************************)
(* Predicates used by the properties                                       *)
(***************************************************************************)
Cached(s) == s \in DOMAIN status_cache

Queued(s) == QueueCount(pending_queue, s) > 0

Converged(s) ==
    /\ Cached(s)
    /\ status_cache[s].mainframe_status = status_cache[s].local_status
    /\ status_cache[s].sync_lag_hours = 0
    /\ status_cache[s].last_sync # NoTime

Published == last.op = "publish"

SyncedOk == last.op = "force_sync" /\ last.err = "none"

\* the mapping M of the specification, written out as a table
SpecTable(recommendation) ==
    IF recommendation = "GRANT" THEN "ACTIVE"
    ELSE IF recommendation = "REVOKE" THEN "REVOKED"
    ELSE IF recommendation = "MANUAL_REVIEW" THEN "SUSPENDED"
    ELSE "PENDING"

(***************************************************************************)
(* C1: every cached LegacyStatus has sync_lag_hours = 0 if and only if     *)
(* mainframe_status = local_status and last_sync is set, for every         *)
(* sync_interval_hours >= 0.                                               *)
(***************************************************************************)
C1_LagZeroIffSynced ==
    \A s \in DOMAIN status_cache :
        (status_cache[s].sync_lag_hours = 0)
            <=> (/\ status_cache[s].mainframe_status = status_cache[s].local_status
                 /\ status_cache[s].last_sync # NoTime)

(***************************************************************************)
(* C2: while a subject has an item in the queue, its mainframe_status is   *)
(* the local_status of its last convergence (ACTIVE if it never            *)
(* converged), and so is not the pending local_status whenever that        *)
(* differs from the converged one.                                         *)
(***************************************************************************)
C2_QueuedMainframeIsLastConverged ==
    \A s \in Subjects :
        Queued(s) =>
            /\ Cached(s)
            /\ status_cache[s].mainframe_status = converged[s]
            /\ (status_cache[s].local_status # converged[s]
                    => status_cache[s].mainframe_status # status_cache[s].local_status)

(***************************************************************************)
(* C3: the decision of every queue item maps to the local_status the cache *)
(* holds for the item's subject.                                           *)
(***************************************************************************)
C3_QueueItemsRepresentedInCache ==
    \A i \in 1..Len(pending_queue) :
        /\ Cached(pending_queue[i].subject_id)
        /\ status_map(pending_queue[i].decision.recommendation)
               = status_cache[pending_queue[i].subject_id].local_status

(***************************************************************************)
(* C4 as stated: right after every publish the subject's status has        *)
(* local_status # mainframe_status and sync_lag_hours > 0; right after a   *)
(* successful force_sync or a batch that processed the subject it has      *)
(* local_status = mainframe_status and sync_lag_hours = 0.                 *)
(***************************************************************************)
C4_PublishedDiffersSyncedAgrees ==
    /\ Published =>
           /\ status_cache[last.subject_id].local_status
                  # status_cache[last.subject_id].mainframe_status
           /\ status_cache[last.subject_id].sync_lag_hours > 0
    /\ \A s \in last.synced :
           /\ status_cache[s].local_status = status_cache[s].mainframe_status
           /\ status_cache[s].sync_lag_hours = 0

(***************************************************************************)
(* C4 amended: right after every publish the subject's status has          *)
(* last_sync absent and sync_lag_hours = sync_interval_hours, and          *)
(* local_status # mainframe_status exactly when the decision maps to a     *)
(* status other than ACTIVE; right after a successful force_sync or a      *)
(* batch that processed the subject it has local_status = mainframe_status *)
(* and sync_lag_hours = 0.                                                 *)
(***************************************************************************)
C4_StatusCycle ==
    /\ Published =>
           /\ status_cache[last.subject_id].last_sync = NoTime
           /\ status_cache[last.subject_id].sync_lag_hours = sync_interval
           /\ (status_cache[last.subject_id].local_status
                   # status_cache[last.subject_id].mainframe_status)
                  <=> (SpecTable(last.recommendation) # "ACTIVE")
    /\ \A s \in last.synced :
           /\ status_cache[s].local_status = status_cache[s].mainframe_status
           /\ status_cache[s].sync_lag_hours = 0

\* a synced subject is published again, and later synced again
C4_Witness ==
    /\ SyncedOk
    /\ last.after.op = "publish"
    /\ last.after.subject_id = last.subject_id
    /\ last.prior_batch_sync # NoTime
    /\ converged[last.subject_id] = "REVOKED"
    /\ sync_interval > 0

(***************************************************************************)
(* C5: publish never fails and leaves the subject's entry equal to         *)
(* (M(recommendation), ACTIVE, last_sync absent, sync_interval_hours),     *)
(* whatever entry the subject had before.                                  *)
(***************************************************************************)
C5_PublishOverwrites ==
    Published =>
        /\ last.err = "none"
        /\ Cached(last.subject_id)
        /\ status_cache[last.subject_id]
               = LegacyStatus(SpecTable(last.recommendation), "ACTIVE",
                              NoTime, sync_interval)
        /\ last.ret = status_cache[last.subject_id]

\* a subject converged to REVOKED is published again
C5_Witness ==
    /\ Published
    /\ last.prior.last_sync # NoTime
    /\ last.prior.mainframe_status = "REVOKED"
    /\ last.recommendation = "MANUAL_REVIEW"
    /\ sync_interval > 0

(***************************************************************************)
(* C6: force_sync of a subject run right after a publish for that subject  *)
(* returns a status with sync_lag_hours = 0 and mainframe_status =         *)
(* local_status, and leaves no queue item for the subject.                 *)
(***************************************************************************)
SyncRightAfterPublish ==
    /\ last.op = "force_sync"
    /\ last.after.op = "publish"
    /\ last.after.subject_id = last.subject_id

C6_ForceSyncAfterPublish ==
    SyncRightAfterPublish =>
        /\ last.err = "none"
        /\ last.ret.sync_lag_hours = 0
        /\ last.ret.mainframe_status = last.ret.local_status
        /\ last.ret = status_cache[last.subject_id]
        /\ QueueCount(pending_queue, last.subject_id) = 0

\* the subject had two items queued when the sync ran
C6_Witness ==
    /\ SyncRightAfterPublish
    /\ last.prior_qcount = 2
    /\ last.ret.local_status = "SUSPENDED"
    /\ sync_interval > 0

(***************************************************************************)
(* C7: force_sync for a subject with no cache entry raises the not-found   *)
(* error and changes neither the cache, nor the queue, nor the             *)
(* last-batch-sync timestamp.                                              *)
(***************************************************************************)
C7_NotFoundLeavesStateUnchanged ==
    [][(/\ now' = now
        /\ last'.op = "force_sync"
        /\ last'.subject_id \notin DOMAIN status_cache)
          => /\ last'.err = "ValueError"
             /\ status_cache' = status_cache
             /\ pending_queue' = pending_queue
             /\ last_batch_sync' = last_batch_sync
             /\ sync_interval' = sync_interval]_vars

\* the failed call found a non-empty queue, another subject cached and an
\* earlier sync timestamp
C7_Witness ==
    /\ last.op = "force_sync"
    /\ last.err = "ValueError"
    /\ ~Cached(last.subject_id)
    /\ pending_queue # <<>>
    /\ last_batch_sync # NoTime
    /\ now > last_batch_sync

(***************************************************************************)
(* C8: the batch returns the number of queue items, taken at call time,    *)
(* whose subject has a cache entry, and leaves the queue empty; after      *)
(* publishes for N distinct subjects with no sync before, it returns N.    *)
(***************************************************************************)
CachedItems(queue, cache) ==
    Cardinality({i \in 1..Len(queue) : queue[i].subject_id \in DOMAIN cache})

C8_BatchCountsAndDrains ==
    [][(now' = now /\ last'.op = "batch")
          => /\ last'.processed = CachedItems(pending_queue, status_cache)
             /\ pending_queue' = <<>>
             /\ (/\ last_batch_sync = NoTime
                 /\ Cardinality(QueueSubjects(pending_queue)) = Len(pending_queue))
                   => last'.processed = Len(pending_queue)]_vars

\* the first sync of the run is a batch over two distinct subjects
C8_Witness ==
    /\ last.op = "batch"
    /\ last.prior_batch_sync = NoTime
    /\ last.processed = 2
    /\ Cardinality(last.synced) = 2
    /\ pending_queue = <<>>

(***************************************************************************)
(* C9: right after a batch every cached subject is converged and the       *)
(* queue is empty; and with the batch run fairly, every publish for a      *)
(* subject is eventually followed by a state where the subject is          *)
(* converged.                                                              *)
(***************************************************************************)
C9_BatchDrainsAll ==
    /\ [](last.op = "batch"
            => /\ pending_queue = <<>>
               /\ \A s \in DOMAIN status_cache : Converged(s))
    /\ \A s \in Subjects :
           (Published /\ last.subject_id = s) ~> Converged(s)

\* a batch that ran right after a publish, with a subject synced earlier
C9_Witness ==
    /\ last.op = "batch"
    /\ last.after.op = "publish"
    /\ Converged(last.after.subject_id)
    /\ last.prior_batch_sync # NoTime
    /\ \A s \in Subjects : Converged(s)

(***************************************************************************)
(* C10: a second publish of the same decision for the same subject leaves  *)
(* the subject's cache entry as the first publish left it, and the queue   *)
(* holds one more item for the subject.                                    *)
(***************************************************************************)
PublishedTwice ==
    /\ Published
    /\ last.after.op = "publish"
    /\ last.after.subject_id = last.subject_id
    /\ last.after.recommendation = last.recommendation

C10_PublishIdempotentOnCache ==
    PublishedTwice =>
        /\ status_cache[last.subject_id] = last.prior
        /\ QueueCount(pending_queue, last.subject_id) = last.prior_qcount + 1

C10_Witness ==
    /\ PublishedTwice
    /\ last.recommendation = "REVOKE"
    /\ last.prior_qcount = 1
    /\ sync_interval > 0

(***************************************************************************)
(* C11: a successful force_sync removes every queue item of the subject,   *)
(* keeps the items of the other subjects in their order, leaves the cache  *)
(* entries of the other subjects and the subject's local_status as they    *)
(* were, and sets the subject's mainframe_status, last_sync,               *)
(* sync_lag_hours and the last-batch-sync timestamp.                       *)
(***************************************************************************)
RECURSIVE ItemsOfOthers(_, _)
ItemsOfOthers(queue, subject_id) ==
    IF queue = <<>> THEN <<>>
    ELSE IF Head(queue).subject_id = subject_id
         THEN ItemsOfOthers(Tail(queue), subject_id)
         ELSE <<Head(queue)>> \o ItemsOfOthers(Tail(queue), subject_id)

C11_ForceSyncFrame ==
    [][(/\ now' = now
        /\ last'.op = "force_sync"
        /\ last'.err = "none")
          => /\ pending_queue' = ItemsOfOthers(pending_queue, last'.subject_id)
             /\ DOMAIN status_cache' = DOMAIN status_cache
             /\ \A t \in DOMAIN status_cache \ {last'.subject_id} :
                    status_cache'[t] = status_cache[t]
             /\ status_cache'[last'.subject_id]
                    = LegacyStatus(status_cache[last'.subject_id].local_status,
                                   status_cache[last'.subject_id].local_status,
                                   now, 0)
             /\ last_batch_sync' = now
             /\ sync_interval' = sync_interval]_vars

\* the sync found an item of its subject and left the unsynced item of the
\* other subject queued
C11_Witness ==
    /\ SyncedOk
    /\ last.prior_qcount > 0
    /\ pending_queue # <<>>
    /\ \E t \in DOMAIN status_cache :
           /\ t # last.subject_id
           /\ status_cache[t].last_sync = NoTime
           /\ status_cache[t].local_status # "ACTIVE"
    /\ now > 0

(***************************************************************************)
(* C12: whatever the interleaving, a reader of the cache and the queue     *)
(* never sees one changed without the other: every queue item's subject    *)
(* is cached, an entry published and not yet synced has its queue item,    *)
(* and a converged entry has none.                                         *)
(***************************************************************************)
C12_CacheAndQueueAtomic ==
    \A s \in Subjects :
        /\ Queued(s) => Cached(s)
        /\ (Cached(s) /\ status_cache[s].last_sync = NoTime) => Queued(s)
        /\ Converged(s) => ~Queued(s)

(***************************************************************************)
(* C13: once every operation that was called has returned, no subject is   *)
(* left with an entry that is neither converged nor queued: a publish      *)
(* interleaved with a force_sync or a batch is not lost.                   *)
(***************************************************************************)
Quiescent == \A t \in Threads : pc[t] = "idle"

C13_NoLostUpdate ==
    Quiescent =>
        \A s \in DOMAIN status_cache : Converged(s) \/ Queued(s)
\* ---- the adjudication engine (EngineSpec) ----

\* an adjudicate_case call has returned: incident and decision are its input and result
Adjudicated == adjudications > 0

Felony(i) == \E k \in 1..Len(i.charges) : i.charges[k].severity = "Felony"

\* the band of a score in tenths, as the specification tabulates it
Band(score) ==
    CASE score >= 40 -> "REVOKE"
      [] score >= 20 /\ score < 40 -> "MANUAL_REVIEW"
      [] score > 0 /\ score < 20 -> "DENY"
      [] score = 0 -> "GRANT"

\* the findings of the statement of reasons that are terminal sentences
TerminalFindings(d) ==
    {k \in 1..Len(d.generated_sor.findings) :
        d.generated_sor.findings[k][2].template
            \in {"REVOKE", "MANUAL_REVIEW", "DENY", "GRANT"}}

\* C14: the recommendation is the band of the risk score (>= 4.0 REVOKE,
\* 2.0 <= score < 4.0 MANUAL_REVIEW, 0 < score < 2.0 DENY, 0 GRANT), for every
\* score up to the cap and for every decision returned; the reasoning of a
\* decision holds exactly one terminal sentence, the last, that of the band
C14_FourBands ==
    /\ \A score \in 0..ScoreCap : Judge(score) = Band(score)
    /\ Adjudicated =>
          /\ decision.recommendation = Band(decision.risk_score)
          /\ TerminalFindings(decision) = {Len(decision.generated_sor.findings)}
          /\ decision.generated_sor.recommendation.template = decision.recommendation

C14_Witness ==
    /\ Adjudicated
    /\ decision.risk_score = 40
    /\ decision.recommendation = "REVOKE"
    /\ Len(decision.generated_sor.findings) = 3

\* the score the specification gives an incident, in tenths
ExpectedScore(i) ==
    (IF i.alcohol_involved THEN 20 ELSE 0)
    + (IF Felony(i) THEN 30 ELSE IF Len(i.charges) > 1 THEN 20 ELSE 0)

\* C15: the risk score of the returned decision is 2.0 if alcohol was
\* involved plus 3.0 if some charge is a Felony, else 2.0 if there is more
\* than one charge; no other severity changes the score
C15_RiskScore == Adjudicated => decision.risk_score = ExpectedScore(incident)

C15_Witness ==
    /\ Adjudicated
    /\ Len(incident.charges) = 2
    /\ incident.charges[1].severity = "Unknown"
    /\ incident.charges[2].severity = "Felony"
    /\ ~incident.alcohol_involved
    /\ decision.risk_score = 30

\* C16: no alcohol and zero charges give GRANT, no citations and score 0
C16_CleanIncidentGranted ==
    (Adjudicated /\ ~incident.alcohol_involved /\ Len(incident.charges) = 0) =>
        /\ decision.recommendation = "GRANT"
        /\ decision.citations = <<>>
        /\ decision.risk_score = 0

C16_Witness ==
    /\ Adjudicated
    /\ ~incident.alcohol_involved
    /\ incident.charges = <<>>
    /\ decision.recommendation = "GRANT"

\* C17: one rule firing gives MANUAL_REVIEW: alcohol with exactly one
\* Misdemeanor charge scores 2.0, a single Felony charge without alcohol 3.0
C17_OneRuleManualReview ==
    Adjudicated =>
        /\ (/\ incident.alcohol_involved
            /\ Len(incident.charges) = 1
            /\ incident.charges[1].severity = "Misdemeanor")
              => (decision.risk_score = 20 /\ decision.recommendation = "MANUAL_REVIEW")
        /\ (/\ ~incident.alcohol_involved
            /\ Len(incident.charges) = 1
            /\ incident.charges[1].severity = "Felony")
              => (decision.risk_score = 30 /\ decision.recommendation = "MANUAL_REVIEW")

C17_Witness ==
    /\ Adjudicated
    /\ incident.alcohol_involved
    /\ Len(incident.charges) = 1
    /\ incident.charges[1].severity = "Misdemeanor"
    /\ decision.recommendation = "MANUAL_REVIEW"
    /\ Len(decision.citations) = 1

\* C18: both rules firing give REVOKE: alcohol with a Felony charge scores
\* 5.0, alcohol with two or more charges none of them a Felony 4.0
C18_BothRulesRevoke ==
    (Adjudicated /\ incident.alcohol_involved) =>
        /\ Felony(incident)
              => (decision.risk_score = 50 /\ decision.recommendation = "REVOKE")
        /\ (~Felony(incident) /\ Len(incident.charges) >= 2)
              => (decision.risk_score = 40 /\ decision.recommendation = "REVOKE")

C18_Witness ==
    /\ Adjudicated
    /\ incident.alcohol_involved
    /\ Len(incident.charges) = 2
    /\ ~Felony(incident)
    /\ decision.recommendation = "REVOKE"
    /\ Len(decision.citations) = 2

\* the guidelines a decision cites, in order
CitedGuidelines(d) == [k \in 1..Len(d.citations) |-> d.citations[k].guideline]

\* C19: the citations are Guideline G iff alcohol was involved, followed by
\* Guideline J iff some charge is a Felony or there is more than one charge;
\* nothing else is cited and the citations count the rules that fired
C19_CitationList ==
    Adjudicated =>
        LET g == incident.alcohol_involved
            j == Felony(incident) \/ Len(incident.charges) > 1
        IN /\ CitedGuidelines(decision)
                 = (IF g THEN <<"Guideline G">> ELSE <<>>)
                   \o (IF j THEN <<"Guideline J">> ELSE <<>>)
           /\ Len(decision.citations) = (IF g THEN 1 ELSE 0) + (IF j THEN 1 ELSE 0)
           /\ decision.generated_sor.legal_basis
                 = [k \in 1..Len(decision.citations) |->
                       <<decision.citations[k].guideline,
                         decision.citations[k].source_paragraph>>]

C19_Witness ==
    /\ Adjudicated
    /\ CitedGuidelines(decision) = <<"Guideline G", "Guideline J">>
    /\ Felony(incident)
    /\ Len(incident.charges) = 1

\* C20: the audit log has one entry per adjudicate_case call; a call appends
\* the entry of its incident and decision at the end and leaves the earlier
\* entries alone, and nothing else changes the log
C20_AuditLogAppendOnly ==
    /\ [](Len(decision_log) = adjudications)
    /\ [][IF adjudications' = adjudications + 1
          THEN decision_log' = Append(decision_log,
                                      [incident_id |-> incident'.report_id,
                                       decision |-> decision'.recommendation,
                                       timestamp |-> decision'.timestamp])
          ELSE decision_log' = decision_log]_vars

C20_Witness ==
    /\ Len(decision_log) = 2
    /\ decision_log[1].incident_id # decision_log[2].incident_id
    /\ decision_log[1].decision # decision_log[2].decision
    /\ decision_log[1].timestamp # decision_log[2].timestamp

\* what a decision says, the timestamp left out
Content(d) ==
    [recommendation |-> d.recommendation, risk_score |-> d.risk_score,
     citations |-> d.citations, generated_sor |-> d.generated_sor]

\* C21: a call given the incident of the call before it returns a decision
\* with the same recommendation, risk score, citations and statement of
\* reasons, whatever the audit log holds by then; only the timestamp may differ
C21_Deterministic ==
    [][(adjudications > 0 /\ adjudications' = adjudications + 1 /\ incident' = incident)
          => Content(decision') = Content(decision)]_vars

C21_Witness ==
    /\ repeated = "incident"
    /\ Len(decision_log) = 2
    /\ decision_log[1].timestamp # decision_log[2].timestamp
    /\ Len(decision.citations) = 2

\* a required field of the incident is empty
Malformed(i) == i.report_id = "" \/ i.subject_name = "" \/ i.date = ""

\* C22: a call given an incident with an empty report_id, subject_name or
\* date returns no decision and appends nothing to the audit log
C22_MalformedRejected ==
    [][(<<incident, adjudications>>' # <<incident, adjudications>> /\ Malformed(incident'))
          => (decision' = decision /\ decision_log' = decision_log)]_vars

\* the sum of the contributions of the rules that fire on an incident
UncappedScore(i) == RuleSetB(i, RuleSetA(i, StartOfCase)).risk_score

\* C23: the risk score of a returned decision lies in [0, 10]; the
\* recommendation is chosen from the uncapped sum and the cap, applied
\* afterwards, changes nothing: the returned score is the uncapped sum
C23_ScoreWithinCap ==
    Adjudicated =>
        /\ decision.risk_score \in 0..100
        /\ decision.risk_score = UncappedScore(incident)
        /\ decision.recommendation = Judge(UncappedScore(incident))

C23_Witness ==
    /\ Adjudicated
    /\ UncappedScore(incident) = 50
    /\ decision.risk_score = 50

\* ---- the ACL with its operations run one at a time (Spec) ----

\* the subject is cached and not synced since its latest publish
Unsynced(s) == Cached(s) /\ status_cache[s].last_sync = NoTime

\* C24: with the operations run one at a time, a subject has an item in the
\* queue exactly when it is cached and unsynced since its latest publish;
\* so every queued subject is cached and no converged subject is queued
C24_QueuedIffUnsynced ==
    /\ \A s \in Subjects : Queued(s) <=> Unsynced(s)
    /\ \A k \in 1..Len(pending_queue) : Cached(pending_queue[k].subject_id)
    /\ \A s \in Subjects : Converged(s) => ~Queued(s)

C24_Witness ==
    /\ Converged("SUBJ-1") /\ ~Queued("SUBJ-1")
    /\ Unsynced("SUBJ-2") /\ QueueCount(pending_queue, "SUBJ-2") = 2

\* C25: no operation removes a cache entry, so every item the batch finds
\* in the queue has its subject cached and the batch returns the length of
\* the queue at call time, the items of one subject counted one by one
C25_BatchReturnsQueueLength ==
    [][/\ DOMAIN status_cache \subseteq DOMAIN status_cache'
       /\ (now' = now /\ last'.op = "batch")
             => /\ \A k \in 1..Len(pending_queue) :
                       pending_queue[k].subject_id \in DOMAIN status_cache
                /\ last'.processed = Len(pending_queue)]_vars

\* the batch found two items of one subject and returned 2
C25_Witness ==
    /\ last.op = "batch"
    /\ last.processed = 2
    /\ Cardinality(last.synced) = 1
    /\ Cardinality(DOMAIN status_cache) = 1

\* ---- the request pipeline (PipelineSpec) ----

\* C26: the score of every decision is 0, 2.0, 3.0, 4.0 or 5.0, never
\* strictly between 0 and 2.0, so no decision is DENY, and no status
\* published from a decision of the engine has local_status PENDING
C26_DenyUnreachable ==
    /\ Adjudicated =>
          /\ decision.risk_score \in {0, 20, 30, 40, 50}
          /\ ~(decision.risk_score > 0 /\ decision.risk_score < 20)
          /\ decision.recommendation # "DENY"
    /\ \A k \in 1..Len(decision_log) : decision_log[k].decision # "DENY"
    /\ \A k \in 1..Len(pending_queue) :
          pending_queue[k].decision.recommendation # "DENY"
    /\ \A s \in DOMAIN status_cache : status_cache[s].local_status # "PENDING"

\* two requests went through both phases
C26_Witness ==
    /\ adjudications = 2
    /\ Len(pending_queue) = 2
    /\ DOMAIN status_cache = Subjects
    /\ status_cache["SUBJ-1"].local_status = "SUSPENDED"
    /\ status_cache["SUBJ-2"].local_status = "ACTIVE"
    /\ last.op = "publish"
    /\ last.recommendation = decision.recommendation

\* ---- the two engines side by side (EquivSpec) ----

\* both engines have returned a decision for incident
Compared == incident # NoIncident /\ demo_decision # NoDecision

\* C27: for every incident the engine of demo.py (two bands below the
\* revocation threshold) and the engine of logic.py (three) return the same
\* recommendation, the same risk score and the same cited guidelines in order
C27_EnginesAgree ==
    Compared =>
        /\ demo_decision.recommendation = decision.recommendation
        /\ demo_decision.risk_score = decision.risk_score
        /\ CitedGuidelines(demo_decision) = CitedGuidelines(decision)

C27_Witness ==
    /\ Compared
    /\ decision.recommendation = "MANUAL_REVIEW"
    /\ demo_decision.recommendation = "MANUAL_REVIEW"
    /\ decision.risk_score = 20
    /\ CitedGuidelines(demo_decision) = <<"Guideline J">>

\* ---- the engine never fails (EngineSpec) ----

JCited(d) == \E k \in 1..Len(d.citations) : d.citations[k].guideline = "Guideline J"

\* C28: no call on a well-formed incident, the empty charge list included,
\* raises: when the criminal-conduct rule fires the charge list is not
\* empty and the sentence names its first charge, and the reasoning the
\* statement of reasons takes its last element from is not empty
C28_NeverFails ==
    Adjudicated =>
        /\ ~Raised(decision)
        /\ JCited(decision) =>
              /\ Len(incident.charges) >= 1
              /\ \E k \in 1..Len(decision.generated_sor.findings) :
                     LET f == decision.generated_sor.findings[k][2]
                     IN f.template = "charges"
                        /\ f.first = incident.charges[1].description
        /\ Len(decision.generated_sor.findings) >= 1
        /\ decision.generated_sor.recommendation
              = decision.generated_sor.findings[Len(decision.generated_sor.findings)][2]
        /\ Len(decision_log) = adjudications

\* the call on an incident with no charges and alcohol involved returned
C28_Witness ==
    /\ Adjudicated
    /\ incident.charges = <<>>
    /\ incident.alcohol_involved
    /\ ~Raised(decision)
    /\ decision.recommendation = "MANUAL_REVIEW"

\* ---- retrieval and decision (RetrievalSpec) ----

\* the part of a decision the claim compares
Verdict(d) ==
    [recommendation |-> d.recommendation, risk_score |-> d.risk_score,
     guidelines |-> CitedGuidelines(d)]

Returned(code, i) ==
    \E k \in 1..Len(retrieve_guidelines(i)) : retrieve_guidelines(i)[k] = code

GCited(d) == \E k \in 1..Len(d.citations) : d.citations[k].guideline = "Guideline G"

\* C29: two incidents that agree on alcohol_involved and on the sequence
\* of charge severities get the same recommendation, risk score and cited
\* guidelines, whatever their narratives and charge descriptions and
\* whatever the search returns for them; G is cited exactly when alcohol
\* was involved, whether or not the search returned G
C29_RetrievalIrrelevant ==
    /\ [](Adjudicated => (GCited(decision) <=> incident.alcohol_involved))
    /\ [][(adjudications' = adjudications + 1 /\ Shared(incident, incident') = "facts")
             => Verdict(decision') = Verdict(decision)]_vars

\* the call before had the same facts under another report; for this one the
\* search returned E and not G, and the decision cites G and not E
C29_Witness ==
    /\ repeated = "facts"
    /\ incident.alcohol_involved
    /\ ~Returned("G", incident) /\ GCited(decision)
    /\ Returned("E", incident)
    /\ \A k \in 1..Len(decision.citations) :
          decision.citations[k].guideline \in {"Guideline G", "Guideline J"}
    /\ Len(decision_log) = 2
    /\ decision_log[1].incident_id # decision_log[2].incident_id

====
